---- MODULE Spec2Model ----
(***************************************************************************)
(* django-notification: notice types, per-user medium settings, immediate  *)
(* and queued sending of notices, and observed items.                      *)
(*                                                                         *)
(* Database tables are bags of rows (a table may hold equal rows; the      *)
(* order of rows is not part of the state).  Every function of            *)
(* notification/models.py is an operator from a state record s to the      *)
(* state record it leaves; an action applies one call to the variables.    *)
(***************************************************************************)
EXTENDS Integers, Sequences, FiniteSets, Bags, TLC

VARIABLES
    QUEUE_ALL,           \* settings.NOTIFICATION_QUEUE_ALL, read at import
    LAZY_RENDERING,      \* settings.LAZY_NOTIFICATION_RENDERING, read at import
    PROFILES_ACTIVATED,  \* settings.AUTH_PROFILE_MODULE (truthiness), read at import
    NOTIFICATION_LANGUAGE_MODULE,  \* settings.NOTIFICATION_LANGUAGE_MODULE is set
    undeliverable,       \* the addresses the mail backend raises on
    active_language,     \* the process-wide language of django.utils.translation
    requests,            \* the requests under way: where each is, and its local objects
    noticeTypes,         \* table NoticeType
    noticeSettings,      \* table NoticeSetting
    notices,             \* table Notice
    activityContexts,    \* table ActivityContext
    batches,             \* table NoticeQueueBatch
    observedItems,       \* table ObservedItem
    outbox,              \* the send_mail calls of the last operation, in order
    wall,                \* the send_to_facebook calls of the last operation, in order
    last                 \* the last operation: name, arguments, exception, return value

vars == <<QUEUE_ALL, LAZY_RENDERING, PROFILES_ACTIVATED, NOTIFICATION_LANGUAGE_MODULE,
          undeliverable, active_language, requests, noticeTypes, noticeSettings,
          notices, activityContexts, batches, observedItems, outbox, wall, last>>

----------------------------------------------------------------------------
(* Bounds and input domains *)

\* Notice rows plus queued requests the model lets exist at once.
MaxNotices == 2
\* ObservedItem rows the model lets exist at once.
MaxObserved == 2

Users == {"u1", "u2"}
Labels == {"welcome"}
\* a label no NoticeType is ever created for
UnknownLabel == "ghost"
Defaults == {1, 2, 3}
Displays == {"Welcome"}
Descriptions == {"a user joined"}
\* context objects / observed objects: (content type, object id)
Entities == {"project:1", "project:2"}
Signals == {"post_save", "post_delete"}
NoContext == "None"
\* an instance of django.contrib.auth.models.AnonymousUser
AnonymousUser == "AnonymousUser"

\* User.email ("" when the user has none)
Email(u) == IF u = "u1" THEN "u1@example.com" ELSE ""
\* getattr(user.get_profile(), FACEBOOK_ATTR, None) ("" when there is none)
AccessToken(u) == IF u = "u1" THEN "token-u1" ELSE "token-u2"
\* settings.LANGUAGE_CODE, the language a process starts with
DefaultLanguage == "en"
\* the language the language store holds for the user ("" when it has no row)
StoredLanguage(u) == IF u = "u1" THEN "es" ELSE ""
\* User.pk
Pk(u) == IF u = "u1" THEN 1 ELSE 2
\* User.objects.get(pk=pk)
UserOfPk(pk) == CHOOSE u \in Users : Pk(u) = pk

\* the requests the server works on at the same time
RequestIds == {"r1", "r2"}
\* a request that has not read anything yet
Idle == [at |-> "idle", local |-> <<>>]

\* recipient sequences without repetition, of length 0..2
RecipientLists ==
    {<<>>} \cup {<<u>> : u \in Users}
           \cup {p \in Users \X Users : p[1] # p[2]}

----------------------------------------------------------------------------
(* Tables *)

EmptyTable == EmptyBag
Insert(table, row) == table (+) SetToBag({row})
Delete(table, row) == table (-) SetToBag({row})
Rows(table) == BagToSet(table)
\* number of rows of the table that satisfy a filter, given as the set of
\* distinct matching rows
Count(table, matching) == BagCardinality([r \in matching |-> table[r]])

----------------------------------------------------------------------------
(* Media *)

\* NOTICE_MEDIA: "1" Email, "2" Facebook
NOTICE_MEDIA == <<"1", "2">>
EMAIL_SENSITIVITY == 2
FACEBOOK_SENSITIVITY == 3
\* NOTICE_MEDIA_DEFAULTS: how spam-sensitive is the medium
NOTICE_MEDIA_DEFAULTS(medium) ==
    IF medium = "1" THEN EMAIL_SENSITIVITY ELSE FACEBOOK_SENSITIVITY

----------------------------------------------------------------------------
(* The state record the operators work on *)

Cur == [types |-> noticeTypes, settings |-> noticeSettings, notices |-> notices,
        contexts |-> activityContexts, batches |-> batches,
        observed |-> observedItems, language |-> active_language,
        outbox |-> <<>>, wall |-> <<>>, exc |-> "none", ret |-> FALSE]

Raise(s, e) == [s EXCEPT !.exc = e]
Failed(s) == s.exc # "none"

----------------------------------------------------------------------------
(* NoticeType *)

TypesOf(s, label) == {t \in Rows(s.types) : t.label = label}

\* NoticeType.objects.get(label=label) succeeds
HasType(s, label) == Count(s.types, TypesOf(s, label)) = 1
TheType(s, label) == CHOOSE t \in TypesOf(s, label) : TRUE

\* mutant of create_notice_type: a row is created without looking for the label
create_notice_type_without_lookup(s, label, display, description, default) ==
    [s EXCEPT !.types = Insert(s.types,
        [label |-> label, display |-> display,
         description |-> description, default |-> default])]

create_notice_type(s, label, display, description, default) ==
    LET n == Count(s.types, TypesOf(s, label)) IN
    IF n = 1 THEN
        LET notice_type == TheType(s, label)
            updated == [label |-> label, display |-> display,
                        description |-> description, default |-> default]
        IN  IF updated # notice_type
            THEN [s EXCEPT !.types = Insert(Delete(s.types, notice_type), updated)]
            ELSE s
    ELSE IF n = 0 THEN
        [s EXCEPT !.types = Insert(s.types,
            [label |-> label, display |-> display,
             description |-> description, default |-> default])]
    ELSE Raise(s, "MultipleObjectsReturned")

----------------------------------------------------------------------------
(* NoticeSetting *)

SettingsFor(s, user, label, medium) ==
    {r \in Rows(s.settings) :
        r.user = user /\ r.notice_type = label /\ r.medium = medium}

\* mutant of DefaultSend: only media strictly less sensitive than the default are on
DefaultSend_strictly_less(medium, default) == NOTICE_MEDIA_DEFAULTS(medium) < default

\* the default of a setting that does not exist yet
DefaultSend(medium, default) == NOTICE_MEDIA_DEFAULTS(medium) <= default

\* NoticeSetting(...).save() of a new row, under unique_together
NoticeSetting_save(s, setting) ==
    IF SettingsFor(s, setting.user, setting.notice_type, setting.medium) # {}
    THEN Raise(s, "IntegrityError")
    ELSE [s EXCEPT !.settings = Insert(s.settings, setting)]

\* mutant of get_notification_setting: no lookup, a row is created on every call
get_notification_setting_always_creates(s, user, label, medium) ==
    LET default == DefaultSend(medium, TheType(s, label).default) IN
    [s EXCEPT !.settings = Insert(@, [user |-> user, notice_type |-> label,
                                      medium |-> medium, send |-> default]),
              !.ret = default]

\* mutant of get_notification_setting: a row that exists is reset to the default
\* the notice type gives now
get_notification_setting_recomputes(s, user, label, medium) ==
    LET found == SettingsFor(s, user, label, medium)
        default == DefaultSend(medium, TheType(s, label).default)
        setting == [user |-> user, notice_type |-> label,
                    medium |-> medium, send |-> default]
    IN  [s EXCEPT !.settings = Insert(IF found = {} THEN @
                                      ELSE Delete(@, CHOOSE r \in found : TRUE),
                                      setting),
                  !.ret = default]

\* returns the setting's send in ret
get_notification_setting(s, user, label, medium) ==
    LET found == SettingsFor(s, user, label, medium)
        n == Count(s.settings, found)
    IN  IF n = 1 THEN [s EXCEPT !.ret = (CHOOSE r \in found : TRUE).send]
        ELSE IF n = 0 THEN
            LET default == DefaultSend(medium, TheType(s, label).default)
                setting == [user |-> user, notice_type |-> label,
                            medium |-> medium, send |-> default]
                saved == NoticeSetting_save(s, setting)
            IN  IF Failed(saved) THEN saved ELSE [saved EXCEPT !.ret = default]
        ELSE Raise(s, "MultipleObjectsReturned")

\* the except branch of get_notification_setting (lines 96-100), entered after
\* the lookup raised NoticeSetting.DoesNotExist
create_notification_setting(s, user, label, medium) ==
    LET default == DefaultSend(medium, TheType(s, label).default)
        setting == [user |-> user, notice_type |-> label,
                    medium |-> medium, send |-> default]
        saved == NoticeSetting_save(s, setting)
    IN  IF Failed(saved) THEN saved ELSE [saved EXCEPT !.ret = default]

\* get_notification_setting(...).send, left in ret
should_send(s, user, label, medium) ==
    get_notification_setting(s, user, label, medium)

\* setting.send = value; setting.save() on a row that exists
NoticeSetting_update(s, user, label, medium, value) ==
    LET old == CHOOSE r \in SettingsFor(s, user, label, medium) : TRUE IN
    [s EXCEPT !.settings = Insert(Delete(s.settings, old), [old EXCEPT !.send = value])]

\* views.notices: the cells of the settings table, one per notice type and medium
FormCells(s) ==
    {<<t.label, NOTICE_MEDIA[i]>> : t \in Rows(s.types), i \in DOMAIN NOTICE_MEDIA}

\* views.notices over the cells left: resolve each setting and, on a POST, store
\* whether the cell's form label is "on"
RECURSIVE notices_view_cells(_, _, _, _, _)
notices_view_cells(s, cells, user, method, on) ==
    IF cells = {} \/ Failed(s) THEN s
    ELSE LET cell == CHOOSE c \in cells : TRUE
             got == get_notification_setting(s, user, cell[1], cell[2])
             done == IF Failed(got) \/ method # "POST" THEN got
                     ELSE NoticeSetting_update(got, user, cell[1], cell[2], cell \in on)
         IN  notices_view_cells(done, cells \ {cell}, user, method, on)

notices_view(s, user, method, on) ==
    notices_view_cells(s, FormCells(s), user, method, on)

----------------------------------------------------------------------------
(* Rendering *)

ContextKeys == {"observed", "name", "link", "caption", "description", "picture"}
Absent == "<absent>"
\* an extra_context: ContextKeys -> value, Absent for a key the dict lacks
EmptyContext == [k \in ContextKeys |-> Absent]
Has(extra_context, key) == extra_context[key] # Absent

\* u"http://%s%s" % (current_site, reverse("notification_notice_settings"))
NoticesUrl == "http://example.com/notices/settings/"
SiteDomain == "example.com"
\* settings.NOTIFICATION_SITE_PICTURE
SitePicture == "http://example.com/logo.png"

\* the formats send_now renders
Formats(on_site) ==
    {"short.txt", "full.txt", "full.html"}
        \cup (IF ~LAZY_RENDERING /\ on_site THEN {"notice.html"} ELSE {})

\* get_notification_language; "" stands for LanguageStoreNotAvailable
get_notification_language(user) ==
    IF NOTIFICATION_LANGUAGE_MODULE THEN StoredLanguage(user) ELSE ""

\* activate(language)
activate(s, language) == [s EXCEPT !.language = language]

\* get_formatted_messages: one rendered template per format, in the language
\* that is active while it renders
get_formatted_messages(formats, label, user, language) ==
    [f \in formats |-> [template |-> f, label |-> label, user |-> user,
                        language |-> language]]

\* the subject line rendered from messages['short.txt'] for the user
Subject(messages) ==
    IF messages["short.txt"].user = "u1" THEN "welcome, u1" ELSE "welcome, u2"

----------------------------------------------------------------------------
(* ActivityContext *)

ContextsOf(s, entity) == {c \in Rows(s.contexts) : c = entity}

\* mutant of ActivityContext_get_or_create: a row is created on every call
ActivityContext_always_create(s, entity) ==
    [s EXCEPT !.contexts = Insert(s.contexts, entity)]

\* ActivityContext.objects.get_or_create(content_type=ct, object_id=context.pk)
ActivityContext_get_or_create(s, entity) ==
    LET n == Count(s.contexts, ContextsOf(s, entity)) IN
    IF n = 1 THEN s
    ELSE IF n = 0 THEN [s EXCEPT !.contexts = Insert(s.contexts, entity)]
    ELSE Raise(s, "MultipleObjectsReturned")

----------------------------------------------------------------------------
(* send_now *)

FacebookAttrs == {"name", "link", "caption", "description", "picture"}

\* the defaults send_now fills into extra_context before the wall post
FacebookDefaults(extra_context, subject) ==
    [k \in ContextKeys |->
        IF Has(extra_context, k) THEN extra_context[k]
        ELSE IF k = "name" THEN SiteDomain
        ELSE IF k = "description" THEN subject
        ELSE IF k = "link" THEN NoticesUrl
        ELSE IF k = "picture" THEN SitePicture
        ELSE Absent]

\* send_to_facebook: keeps the facebook attributes and posts them when the
\* profile has an access token
send_to_facebook(s, user, context) ==
    LET attachment == [k \in ContextKeys |->
                          IF k \in FacebookAttrs THEN context[k] ELSE Absent]
    IN  IF attachment # EmptyContext /\ AccessToken(user) # ""
        THEN [s EXCEPT !.wall = Append(@, [user |-> user, attachment |-> attachment])]
        ELSE s

\* Notice.objects.create(user=..., message=..., notice_type=..., on_site=..., context=...)
Notice_create(s, user, message, label, on_site, context) ==
    [s EXCEPT !.notices = Insert(@,
        [pk |-> BagCardinality(s.notices) + 1,
         user |-> user, message |-> message, notice_type |-> label,
         unseen |-> TRUE, archived |-> FALSE, on_site |-> on_site,
         context |-> context])]

\* notice.save(): every field of the instance is written to the row of its pk
Notice_save(s, self) ==
    LET row == CHOOSE r \in Rows(s.notices) : r.pk = self.pk
    IN  [s EXCEPT !.notices = Insert(Delete(@, row), self)]

\* mutant of is_unseen: the value is returned but the row is not saved
is_unseen_without_save(s, self) == [s EXCEPT !.ret = self.unseen]

\* Notice.is_unseen
is_unseen(s, self) ==
    LET unseen == self.unseen
        saved == IF unseen THEN Notice_save(s, [self EXCEPT !.unseen = FALSE])
                 ELSE s
    IN  [saved EXCEPT !.ret = unseen]

\* mutant of archive: the flag is switched
archive_switches(s, self) ==
    Notice_save(s, [self EXCEPT !.archived = ~self.archived])

\* Notice.archive
archive(s, self) == Notice_save(s, [self EXCEPT !.archived = TRUE])

\* the body of the loop of views.mark_all_seen
mark_seen(s, self) == Notice_save(s, [self EXCEPT !.unseen = FALSE])

\* lines 341-354: the Notice of one recipient
create_notice(s, user, label, on_site, context, messages) ==
    IF LAZY_RENDERING /\ on_site
    THEN Notice_create(s, user, "pickled context", label, on_site, context)
    ELSE IF "notice.html" \notin DOMAIN messages
    THEN Raise(s, "KeyError")
    ELSE Notice_create(s, user, messages["notice.html"].template, label, on_site, context)

\* lines 356-357: the addresses send_mail gets for one recipient
email_recipients(s, user, label) ==
    LET asked == should_send(s, user, label, "1") IN
    [s |-> asked,
     recipients |-> IF ~Failed(asked) /\ asked.ret /\ Email(user) # ""
                    THEN <<Email(user)>> ELSE <<>>]

\* lines 360-370: the wall post of one recipient; returns the state and the
\* extra_context dict as the call leaves it
facebook_post(s, user, label, extra_context, subject) ==
    LET asked == should_send(s, user, label, "2") IN
    IF Failed(asked) \/ ~(asked.ret /\ PROFILES_ACTIVATED)
    THEN [s |-> asked, extra_context |-> extra_context]
    ELSE LET filled == FacebookDefaults(extra_context, subject) IN
         [s |-> send_to_facebook(asked, user, filled), extra_context |-> filled]

\* send_mail(subject, body, settings.DEFAULT_FROM_EMAIL, recipients): the
\* backend raises when it cannot deliver to one of the addresses
send_mail(s, user, messages, recipients) ==
    IF \E i \in DOMAIN recipients : recipients[i] \in undeliverable
    THEN Raise(s, "SMTPException")
    ELSE [s EXCEPT !.outbox = Append(@,
            [user |-> user, subject |-> Subject(messages),
             language |-> messages["short.txt"].language,
             recipients |-> recipients])]

\* one pass of the loop of send_now (lines 309-372)
send_to_user(s, user, label, extra_context, on_site, context) ==
    LET language == get_notification_language(user)
        activated == IF language # "" THEN activate(s, language) ELSE s
        messages == get_formatted_messages(Formats(on_site), label, user,
                                           activated.language)
        subject == Subject(messages)
        noticed == create_notice(activated, user, label, on_site, context, messages)
        mail == email_recipients(noticed, user, label)
        posted == facebook_post(mail.s, user, label, extra_context, subject)
    IN  IF Failed(noticed) THEN [s |-> noticed, extra_context |-> extra_context]
        ELSE IF Failed(mail.s) THEN [s |-> mail.s, extra_context |-> extra_context]
        ELSE IF Failed(posted.s) THEN posted
        ELSE [s |-> send_mail(posted.s, user, messages, mail.recipients),
              extra_context |-> posted.extra_context]

RECURSIVE send_now_loop(_, _, _, _, _, _, _)
send_now_loop(s, users, i, label, extra_context, on_site, context) ==
    IF i > Len(users) \/ Failed(s) THEN s
    ELSE LET r == send_to_user(s, users[i], label, extra_context, on_site, context)
         IN  send_now_loop(r.s, users, i + 1, label, r.extra_context, on_site, context)

send_now(s, users, label, extra_context, on_site, context) ==
    LET linked == IF context # NoContext
                  THEN ActivityContext_get_or_create(s, context) ELSE s
    IN  IF Failed(linked) THEN linked
        ELSE IF Count(linked.types, TypesOf(linked, label)) = 0
        THEN Raise(linked, "NoticeType.DoesNotExist")
        ELSE IF Count(linked.types, TypesOf(linked, label)) > 1
        THEN Raise(linked, "MultipleObjectsReturned")
        ELSE LET current_language == linked.language
                 sent == send_now_loop(linked, users, 1, label, extra_context,
                                       on_site, context)
             IN  IF Failed(sent) THEN sent ELSE activate(sent, current_language)

----------------------------------------------------------------------------
(* The queue *)

\* pickle.dumps(notices).encode("base64") and its inverse
Pickle(data) == [encoding |-> "base64", pickled |-> data]
Unpickle(pickled_data) == pickled_data.pickled

\* mutant of queue: the tuples are queued without the context object
queue_without_context(s, users, label, extra_context, on_site, context) ==
    LET pks == [i \in DOMAIN users |-> Pk(users[i])]
        queued == [i \in DOMAIN pks |->
                     [user |-> pks[i], label |-> label, extra_context |-> extra_context,
                      on_site |-> on_site, context |-> NoContext]]
    IN  [s EXCEPT !.batches = Insert(@, Pickle(queued))]

\* queue: one NoticeQueueBatch holding one tuple per user, in order
queue(s, users, label, extra_context, on_site, context) ==
    LET pks == [i \in DOMAIN users |-> Pk(users[i])]
        queued == [i \in DOMAIN pks |->
                     [user |-> pks[i], label |-> label, extra_context |-> extra_context,
                      on_site |-> on_site, context |-> context]]
    IN  [s EXCEPT !.batches = Insert(@, Pickle(queued))]

\* mutant of send: the global flag is looked at before the now flag
send_global_flag_first(s, users, label, extra_context, on_site, context, queue_flag, now_flag) ==
    IF queue_flag /\ now_flag THEN Raise(s, "AssertionError")
    ELSE IF queue_flag \/ QUEUE_ALL
    THEN queue(s, users, label, extra_context, on_site, context)
    ELSE send_now(s, users, label, extra_context, on_site, context)

send(s, users, label, extra_context, on_site, context, queue_flag, now_flag) ==
    IF queue_flag /\ now_flag THEN Raise(s, "AssertionError")
    ELSE IF queue_flag THEN queue(s, users, label, extra_context, on_site, context)
    ELSE IF now_flag THEN send_now(s, users, label, extra_context, on_site, context)
    ELSE IF QUEUE_ALL THEN queue(s, users, label, extra_context, on_site, context)
    ELSE send_now(s, users, label, extra_context, on_site, context)

\* the orders in which the rows of a table can be read
Orders(table) ==
    {q \in [1..BagCardinality(table) -> Rows(table)] :
        \A r \in Rows(table) : Cardinality({i \in DOMAIN q : q[i] = r}) = table[r]}

\* the worker replays the requests of one batch, each through send_now with
\* the one recipient
RECURSIVE replay(_, _, _)
replay(s, queued, i) ==
    IF i > Len(queued) \/ Failed(s) THEN s
    ELSE LET n == queued[i] IN
         replay(send_now(s, <<UserOfPk(n.user)>>, n.label, n.extra_context,
                         n.on_site, n.context),
                queued, i + 1)

\* the worker's drain: every batch, in the order read, is replayed and then deleted
RECURSIVE emit_notices(_, _, _)
emit_notices(s, order, i) ==
    IF i > Len(order) \/ Failed(s) THEN s
    ELSE LET replayed == replay(s, Unpickle(order[i]), 1) IN
         IF Failed(replayed) THEN replayed
         ELSE emit_notices([replayed EXCEPT !.batches = Delete(@, order[i])],
                           order, i + 1)

----------------------------------------------------------------------------
(* ObservedItem *)

\* mutant of all_for: the signal is not part of the filter
all_for_any_signal(s, observed, signal) ==
    {o \in Rows(s.observed) : o.observed = observed}

\* ObservedItemManager.all_for
all_for(s, observed, signal) ==
    {o \in Rows(s.observed) : o.observed = observed /\ o.signal = signal}

\* the rows ObservedItemManager.get_for looks among
ItemsFor(s, observed, observer, signal) ==
    {o \in all_for(s, observed, signal) : o.user = observer}

observe(s, observed, observer, notice_type_label, signal) ==
    IF Count(s.types, TypesOf(s, notice_type_label)) = 0
    THEN Raise(s, "NoticeType.DoesNotExist")
    ELSE IF Count(s.types, TypesOf(s, notice_type_label)) > 1
    THEN Raise(s, "MultipleObjectsReturned")
    ELSE [s EXCEPT !.observed = Insert(@,
            [user |-> observer, observed |-> observed,
             notice_type |-> notice_type_label, signal |-> signal])]

\* mutant of stop_observing: nothing to stop is not an error
stop_observing_quietly(s, observed, observer, signal) ==
    LET found == ItemsFor(s, observed, observer, signal)
        n == Count(s.observed, found)
    IN  IF n = 0 THEN s
        ELSE IF n > 1 THEN Raise(s, "MultipleObjectsReturned")
        ELSE [s EXCEPT !.observed = Delete(@, CHOOSE o \in found : TRUE)]

stop_observing(s, observed, observer, signal) ==
    LET found == ItemsFor(s, observed, observer, signal)
        n == Count(s.observed, found)
    IN  IF n = 0 THEN Raise(s, "ObservedItem.DoesNotExist")
        ELSE IF n > 1 THEN Raise(s, "MultipleObjectsReturned")
        ELSE [s EXCEPT !.observed = Delete(@, CHOOSE o \in found : TRUE)]

\* ObservedItem.send_notice
send_notice(s, observed_item) ==
    send(s, <<observed_item.user>>, observed_item.notice_type,
         [EmptyContext EXCEPT !["observed"] = observed_item.observed],
         TRUE, NoContext, FALSE, FALSE)

\* send_observation_notices_for over the observed items in the order read
RECURSIVE send_observation_notices(_, _, _)
send_observation_notices(s, order, i) ==
    IF i > Len(order) \/ Failed(s) THEN s
    ELSE send_observation_notices(send_notice(s, order[i]), order, i + 1)

\* mutant of is_observing: MultipleObjectsReturned is taken for "not observing"
is_observing_one_item(s, observed, observer, signal) ==
    LET n == Count(s.observed, ItemsFor(s, observed, observer, signal)) IN
    IF observer = AnonymousUser THEN [s EXCEPT !.ret = FALSE]
    ELSE [s EXCEPT !.ret = (n = 1)]

\* is_observing: get_for finds one row, raises DoesNotExist, or raises
\* MultipleObjectsReturned
is_observing(s, observed, observer, signal) ==
    LET n == Count(s.observed, ItemsFor(s, observed, observer, signal)) IN
    IF observer = AnonymousUser THEN [s EXCEPT !.ret = FALSE]
    ELSE IF n = 1 THEN [s EXCEPT !.ret = TRUE]
    ELSE IF n = 0 THEN [s EXCEPT !.ret = FALSE]
    ELSE [s EXCEPT !.ret = TRUE]

\* the observed items of (observed, signal), as a table
ObservedTable(s, observed, signal) ==
    [o \in all_for(s, observed, signal) |-> s.observed[o]]

----------------------------------------------------------------------------
(* Actions: one call of an operation, applied to the variables *)

\* an extra_context in which the caller gives the wall post's description
CustomContext == [EmptyContext EXCEPT !["description"] = "custom"]

\* input domains of the queue: recipients, and the context object
QueueRecipients == {<<>>, <<"u1">>, <<"u2", "u1">>}
QueueContexts == {NoContext, "project:1"}

\* the requests a table of batches holds; a batch without requests counts as one
RECURSIVE Requests(_)
Requests(table) ==
    IF table = EmptyBag THEN 0
    ELSE LET b == CHOOSE r \in Rows(table) : TRUE
             n == Len(Unpickle(b))
         IN  (IF n = 0 THEN 1 ELSE n) + Requests(Delete(table, b))

\* rows the Notice table holds plus requests the queue holds
Pending == BagCardinality(notices) + Requests(batches)

\* the recipient sequences the bound MaxNotices leaves room for
Room(lists) ==
    {users \in lists : Pending + (IF Len(users) = 0 THEN 1 ELSE Len(users)) <= MaxNotices}

\* the state a call leaves goes to the variables
Store(s, op, args) ==
    /\ noticeTypes' = s.types
    /\ noticeSettings' = s.settings
    /\ notices' = s.notices
    /\ activityContexts' = s.contexts
    /\ batches' = s.batches
    /\ observedItems' = s.observed
    /\ active_language' = s.language
    /\ outbox' = s.outbox
    /\ wall' = s.wall
    /\ last' = [op |-> op, args |-> args, exc |-> s.exc, ret |-> s.ret]
    /\ UNCHANGED <<QUEUE_ALL, LAZY_RENDERING, PROFILES_ACTIVATED,
                   NOTIFICATION_LANGUAGE_MODULE, undeliverable>>

\* a call that runs from its first line to its last with no other request
\* in between
Apply(s, op, args) ==
    /\ Store(s, op, args)
    /\ UNCHANGED requests

\* a request reads something and keeps it in a local variable
Keep(r, at, local) ==
    /\ requests' = [requests EXCEPT ![r] = [at |-> at, local |-> local]]
    /\ UNCHANGED <<QUEUE_ALL, LAZY_RENDERING, PROFILES_ACTIVATED,
                   NOTIFICATION_LANGUAGE_MODULE, undeliverable, active_language,
                   noticeTypes, noticeSettings, notices, activityContexts, batches,
                   observedItems, outbox, wall, last>>

\* a request ends with a call on what it kept
Finish(r, s, op, args) ==
    /\ Store(s, op, args)
    /\ requests' = [requests EXCEPT ![r] = Idle]

CreateNoticeType ==
    \E label \in Labels, display \in Displays, description \in Descriptions,
       default \in Defaults :
        Apply(create_notice_type(Cur, label, display, description, default),
              "create_notice_type",
              [label |-> label, display |-> display, description |-> description,
               default |-> default])

\* input domains of the notice types of a site
TypeLabels == {"welcome", "invite"}
TypeDisplays == {"Welcome", "Invitation"}
TypeDescriptions == {"a user joined", "you were invited"}

\* create_notice_type as the management commands of a site's apps call it
CreateSiteNoticeType ==
    \E label \in TypeLabels, display \in TypeDisplays,
       description \in TypeDescriptions, default \in Defaults :
        Apply(create_notice_type(Cur, label, display, description, default),
              "create_notice_type",
              [label |-> label, display |-> display, description |-> description,
               default |-> default])

GetNotificationSetting ==
    \E user \in Users, label \in Labels, medium \in {"1", "2"} :
        /\ HasType(Cur, label)
        /\ Apply(get_notification_setting(Cur, user, label, medium),
                 "get_notification_setting",
                 [user |-> user, label |-> label, medium |-> medium])

ShouldSend ==
    \E user \in Users, label \in Labels, medium \in {"1", "2"} :
        /\ HasType(Cur, label)
        /\ Apply(should_send(Cur, user, label, medium), "should_send",
                 [user |-> user, label |-> label, medium |-> medium])

NoticesView ==
    \E user \in Users, method \in {"GET", "POST"},
       on \in SUBSET (Labels \X {"1", "2"}) :
        /\ method = "GET" => on = {}
        /\ Apply(notices_view(Cur, user, method, on), "notices_view",
                 [user |-> user, method |-> method, on |-> on])

\* send_now without a context object
SendNow ==
    \E users \in Room(RecipientLists), label \in Labels, on_site \in BOOLEAN :
        Apply(send_now(Cur, users, label, EmptyContext, on_site, NoContext),
              "send_now",
              [users |-> users, label |-> label, extra_context |-> EmptyContext,
               on_site |-> on_site, context |-> NoContext])

\* send_now about a context object (or none)
SendNowAbout ==
    \E users \in Room(RecipientLists), label \in Labels \cup {UnknownLabel},
       on_site \in BOOLEAN, context \in {NoContext} \cup Entities :
        Apply(send_now(Cur, users, label, EmptyContext, on_site, context),
              "send_now",
              [users |-> users, label |-> label, extra_context |-> EmptyContext,
               on_site |-> on_site, context |-> context])

Send ==
    \E users \in Room(QueueRecipients), on_site \in BOOLEAN,
       context \in QueueContexts, queue_flag \in BOOLEAN, now_flag \in BOOLEAN :
        Apply(send(Cur, users, "welcome", CustomContext, on_site, context,
                   queue_flag, now_flag),
              "send",
              [users |-> users, label |-> "welcome", extra_context |-> CustomContext,
               on_site |-> on_site, context |-> context,
               queue |-> queue_flag, now |-> now_flag])

Queue ==
    \E users \in Room(QueueRecipients), on_site \in BOOLEAN,
       context \in QueueContexts :
        Apply(queue(Cur, users, "welcome", CustomContext, on_site, context), "queue",
              [users |-> users, label |-> "welcome", extra_context |-> CustomContext,
               on_site |-> on_site, context |-> context])

EmitNotices ==
    \E order \in Orders(batches) :
        Apply(emit_notices(Cur, order, 1), "emit_notices", [order |-> order])

Observe ==
    \E observed \in Entities, observer \in Users,
       label \in Labels \cup {UnknownLabel}, signal \in Signals :
        /\ BagCardinality(observedItems) < MaxObserved
        /\ Apply(observe(Cur, observed, observer, label, signal), "observe",
                 [observed |-> observed, observer |-> observer, label |-> label,
                  signal |-> signal])

StopObserving ==
    \E observed \in Entities, observer \in Users, signal \in Signals :
        Apply(stop_observing(Cur, observed, observer, signal), "stop_observing",
              [observed |-> observed, observer |-> observer, signal |-> signal])

\* notice.is_unseen() on a notice read from the table
IsUnseen ==
    \E self \in Rows(notices) :
        Apply(is_unseen(Cur, self), "is_unseen", [notice |-> self])

\* notice.archive() on a notice read from the table
Archive ==
    \E self \in Rows(notices) :
        Apply(archive(Cur, self), "archive", [notice |-> self])

\* a request reads a Notice: Notice.objects.get(id=noticeid) in views.archive,
\* the notices a template shows, or the queryset views.mark_all_seen iterates
LoadNotice ==
    \E r \in RequestIds, notice \in Rows(notices) :
        /\ requests[r].at = "idle"
        /\ Keep(r, "notice", notice)

\* the template calls notice.is_unseen on the notice the request read
RequestIsUnseen ==
    \E r \in RequestIds :
        /\ requests[r].at = "notice"
        /\ Finish(r, is_unseen(Cur, requests[r].local), "is_unseen",
                  [notice |-> requests[r].local])

\* views.archive calls notice.archive on the notice the request read
RequestArchive ==
    \E r \in RequestIds :
        /\ requests[r].at = "notice"
        /\ Finish(r, archive(Cur, requests[r].local), "archive",
                  [notice |-> requests[r].local])

\* views.mark_all_seen saves a notice that notices_for(user, unseen=True) gave it
RequestMarkSeen ==
    \E r \in RequestIds :
        /\ requests[r].at = "notice"
        /\ requests[r].local.unseen /\ ~requests[r].local.archived
        /\ Finish(r, mark_seen(Cur, requests[r].local), "mark_all_seen",
                  [notice |-> requests[r].local])

\* get_notification_setting finds the row and returns it
ResolveFound ==
    \E user \in Users, label \in Labels, medium \in {"1", "2"} :
        /\ SettingsFor(Cur, user, label, medium) # {}
        /\ Apply(get_notification_setting(Cur, user, label, medium),
                 "get_notification_setting",
                 [user |-> user, label |-> label, medium |-> medium])

\* the lookup of get_notification_setting raises NoticeSetting.DoesNotExist
ResolveMissing ==
    \E r \in RequestIds, user \in Users, label \in Labels, medium \in {"1", "2"} :
        /\ requests[r].at = "idle"
        /\ SettingsFor(Cur, user, label, medium) = {}
        /\ Keep(r, "missing", [user |-> user, label |-> label, medium |-> medium])

\* the except branch of get_notification_setting creates the row
ResolveCreate ==
    \E r \in RequestIds :
        /\ requests[r].at = "missing"
        /\ LET a == requests[r].local IN
           Finish(r, create_notification_setting(Cur, a.user, a.label, a.medium),
                  "get_notification_setting", a)

IsObserving ==
    \E observed \in Entities, observer \in Users \cup {AnonymousUser},
       signal \in Signals :
        Apply(is_observing(Cur, observed, observer, signal), "is_observing",
              [observed |-> observed, observer |-> observer, signal |-> signal])

SendObservationNoticesFor ==
    \E observed \in Entities, signal \in Signals :
        \E order \in Orders(ObservedTable(Cur, observed, signal)) :
            /\ Pending + Len(order) <= MaxNotices
            /\ Apply(send_observation_notices(Cur, order, 1),
                     "send_observation_notices_for",
                     [observed |-> observed, signal |-> signal, order |-> order])

----------------------------------------------------------------------------
(* Specifications *)

\* nothing sent yet
NothingSent ==
    /\ noticeSettings = EmptyTable
    /\ notices = EmptyTable
    /\ activityContexts = EmptyTable
    /\ batches = EmptyTable
    /\ observedItems = EmptyTable
    /\ active_language = DefaultLanguage
    /\ requests = [r \in RequestIds |-> Idle]
    /\ outbox = <<>>
    /\ wall = <<>>
    /\ last = [op |-> "none", args |-> <<>>, exc |-> "none", ret |-> FALSE]

\* no language store, and a mail backend that delivers to every address
PlainDelivery ==
    /\ NOTIFICATION_LANGUAGE_MODULE = FALSE
    /\ undeliverable = {}

\* the NoticeType table after the post_syncdb step created "welcome"
Registered(default) ==
    noticeTypes = create_notice_type([types |-> EmptyTable, exc |-> "none"],
                      "welcome", "Welcome", "a user joined", default).types

\* Notice types, settings and immediate sending
Init ==
    /\ QUEUE_ALL = FALSE
    /\ LAZY_RENDERING \in BOOLEAN
    /\ PROFILES_ACTIVATED \in BOOLEAN
    /\ PlainDelivery
    /\ noticeTypes = EmptyTable
    /\ NothingSent

Next ==
    \/ CreateNoticeType
    \/ GetNotificationSetting
    \/ ShouldSend
    \/ NoticesView
    \/ SendNow

Spec == Init /\ [][Next]_vars

\* Immediate sending about context objects
InitContext ==
    /\ QUEUE_ALL = FALSE
    /\ LAZY_RENDERING \in BOOLEAN
    /\ PROFILES_ACTIVATED = FALSE
    /\ PlainDelivery
    /\ \E default \in Defaults : Registered(default)
    /\ NothingSent

NextContext == SendNowAbout

SpecContext == InitContext /\ [][NextContext]_vars

\* The send router, the queue and the worker that drains it
InitQueue ==
    /\ QUEUE_ALL \in BOOLEAN
    /\ LAZY_RENDERING \in BOOLEAN
    /\ PROFILES_ACTIVATED = FALSE
    /\ PlainDelivery
    /\ Registered(EMAIL_SENSITIVITY)
    /\ NothingSent

NextQueue ==
    \/ Send
    \/ Queue
    \/ EmitNotices

SpecQueue == InitQueue /\ [][NextQueue]_vars

\* Observed items and the notices sent for them
InitObserve ==
    /\ QUEUE_ALL \in BOOLEAN
    /\ LAZY_RENDERING = FALSE
    /\ PROFILES_ACTIVATED = FALSE
    /\ PlainDelivery
    /\ Registered(EMAIL_SENSITIVITY)
    /\ NothingSent

NextObserve ==
    \/ Observe
    \/ StopObserving
    \/ SendObservationNoticesFor

SpecObserve == InitObserve /\ [][NextObserve]_vars

\* Observed items and the question whether a user observes
InitSubscriptions ==
    /\ QUEUE_ALL = FALSE
    /\ LAZY_RENDERING = FALSE
    /\ PROFILES_ACTIVATED = FALSE
    /\ PlainDelivery
    /\ Registered(EMAIL_SENSITIVITY)
    /\ NothingSent

NextSubscriptions ==
    \/ Observe
    \/ StopObserving
    \/ IsObserving

SpecSubscriptions == InitSubscriptions /\ [][NextSubscriptions]_vars

\* Notices that are shown and archived
InitNotices ==
    /\ QUEUE_ALL = FALSE
    /\ LAZY_RENDERING \in BOOLEAN
    /\ PROFILES_ACTIVATED = FALSE
    /\ PlainDelivery
    /\ Registered(EMAIL_SENSITIVITY)
    /\ NothingSent

NextNotices ==
    \/ SendNow
    \/ IsUnseen
    \/ Archive

SpecNotices == InitNotices /\ [][NextNotices]_vars

\* send_now with a language store and a mail backend that may raise
InitEnvironment ==
    /\ QUEUE_ALL = FALSE
    /\ LAZY_RENDERING \in BOOLEAN
    /\ PROFILES_ACTIVATED = FALSE
    /\ NOTIFICATION_LANGUAGE_MODULE \in BOOLEAN
    /\ undeliverable \in SUBSET {Email(u) : u \in {v \in Users : Email(v) # ""}}
    /\ Registered(EMAIL_SENSITIVITY)
    /\ NothingSent

NextEnvironment == SendNow

SpecEnvironment == InitEnvironment /\ [][NextEnvironment]_vars

\* Observed items and their notices with a mail backend that may raise
InitObserveUnreliable ==
    /\ QUEUE_ALL = FALSE
    /\ LAZY_RENDERING = FALSE
    /\ PROFILES_ACTIVATED = FALSE
    /\ NOTIFICATION_LANGUAGE_MODULE = FALSE
    /\ undeliverable \in SUBSET {Email(u) : u \in {v \in Users : Email(v) # ""}}
    /\ Registered(EMAIL_SENSITIVITY)
    /\ NothingSent

NextObserveUnreliable ==
    \/ Observe
    \/ StopObserving
    \/ SendObservationNoticesFor

SpecObserveUnreliable == InitObserveUnreliable /\ [][NextObserveUnreliable]_vars

\* The notice types of a site
InitTypes ==
    /\ QUEUE_ALL = FALSE
    /\ LAZY_RENDERING = FALSE
    /\ PROFILES_ACTIVATED = FALSE
    /\ PlainDelivery
    /\ noticeTypes = EmptyTable
    /\ NothingSent

NextTypes == CreateSiteNoticeType

SpecTypes == InitTypes /\ [][NextTypes]_vars

\* Requests that read a Notice and then change it, one step at a time
InitRequests ==
    /\ QUEUE_ALL = FALSE
    /\ LAZY_RENDERING = FALSE
    /\ PROFILES_ACTIVATED = FALSE
    /\ PlainDelivery
    /\ Registered(EMAIL_SENSITIVITY)
    /\ NothingSent

NextRequests ==
    \/ SendNow
    \/ LoadNotice
    \/ RequestIsUnseen
    \/ RequestArchive
    \/ RequestMarkSeen

SpecRequests == InitRequests /\ [][NextRequests]_vars

\* Requests that resolve a setting, one step at a time
InitResolve ==
    /\ QUEUE_ALL = FALSE
    /\ LAZY_RENDERING = FALSE
    /\ PROFILES_ACTIVATED = FALSE
    /\ PlainDelivery
    /\ \E default \in Defaults : Registered(default)
    /\ NothingSent

NextResolve ==
    \/ ResolveFound
    \/ ResolveMissing
    \/ ResolveCreate

SpecResolve == InitResolve /\ [][NextResolve]_vars

----------------------------------------------------------------------------
(* Claims about notice types, settings and immediate sending *)

\* the rows of table `after` that table `before` did not hold
NewRows(before, after) == after (-) before
\* how many rows of the table belong to the user
RowsOf(table, user) == Count(table, {r \in Rows(table) : r.user = user})
\* how often the user is among the recipients
Times(users, user) == Cardinality({i \in DOMAIN users : users[i] = user})

\* one new Notice per recipient, owned by the recipient, unseen, not archived,
\* with the given on_site; the rows there before are kept
OneNoticeEach(before, after, users, on_site) ==
    /\ before \sqsubseteq after
    /\ BagCardinality(NewRows(before, after)) = Len(users)
    /\ \A u \in Users : RowsOf(NewRows(before, after), u) = Times(users, u)
    /\ \A r \in Rows(NewRows(before, after)) :
          r.unseen /\ ~r.archived /\ r.on_site = on_site

\* C1: for every value of on_site and of LAZY_RENDERING, send_now over N
\* recipients with a known label creates exactly N Notice rows, one owned by
\* each recipient, each unseen, not archived, with on_site as given.
C1_DispatchCreatesOneNoticeEach ==
    [][(last'.op = "send_now" /\ HasType(Cur, last'.args.label)) =>
          OneNoticeEach(notices, notices', last'.args.users, last'.args.on_site)]_vars

\* C2: for a (user, notice type, medium) with no NoticeSetting yet,
\* get_notification_setting creates exactly one row, whose send is
\* (sensitivity of the medium <= default of the notice type), the sensitivity
\* being 2 for email and 3 for facebook, and returns that row.
C2_ResolveCreatesDefault ==
    [][(/\ last'.op \in {"get_notification_setting", "should_send"}
        /\ SettingsFor(Cur, last'.args.user, last'.args.label, last'.args.medium) = {})
       =>
          LET sensitivity == IF last'.args.medium = "1" THEN 2 ELSE 3
              expected == sensitivity <= TheType(Cur, last'.args.label).default
          IN  /\ last'.exc = "none"
              /\ noticeSettings' = Insert(noticeSettings,
                    [user |-> last'.args.user, notice_type |-> last'.args.label,
                     medium |-> last'.args.medium, send |-> expected])
              /\ last'.ret = expected]_vars

\* a lookup for u1's facebook setting has stored the first row of the table:
\* off, as the default of the notice type is 2
C2_Witness ==
    /\ last.op = "get_notification_setting"
    /\ last.args = [user |-> "u1", label |-> "welcome", medium |-> "2"]
    /\ last.ret = FALSE
    /\ noticeSettings = SetToBag({[user |-> "u1", notice_type |-> "welcome",
                                   medium |-> "2", send |-> FALSE]})
    /\ HasType(Cur, "welcome") /\ TheType(Cur, "welcome").default = 2

\* C3: there is at most one NoticeSetting per (user, notice type, medium), and
\* two consecutive get_notification_setting calls for the same triple return
\* the same send, the second adding no row.
C3_OneSettingPerTriple ==
    /\ \A user \in Users, label \in Labels, medium \in {"1", "2"} :
          Count(noticeSettings, SettingsFor(Cur, user, label, medium)) <= 1
    /\ \A user \in Users, label \in Labels, medium \in {"1", "2"} :
          HasType(Cur, label) =>
            LET first == get_notification_setting(Cur, user, label, medium)
                second == get_notification_setting(first, user, label, medium)
            IN  /\ ~Failed(first) /\ ~Failed(second)
                /\ second.ret = first.ret
                /\ second.settings = first.settings

\* a lookup has run while the table holds all four settings, one of them with
\* a stored send other than the default the notice type gives now
C3_Witness ==
    /\ last.op = "get_notification_setting"
    /\ BagCardinality(noticeSettings) = 4
    /\ HasType(Cur, "welcome")
    /\ \E r \in Rows(noticeSettings) :
          r.send # (NOTICE_MEDIA_DEFAULTS(r.medium) <= TheType(Cur, "welcome").default)

\* every row of table `before` is in table `after` as often as before
Kept(before, after) == \A r \in Rows(before) : CopiesIn(r, after) = CopiesIn(r, before)

\* the send_mail calls that name the address, the wall posts for the user
MailedTo(calls, address) ==
    {i \in DOMAIN calls : \E j \in DOMAIN calls[i].recipients :
                             calls[i].recipients[j] = address}
PostedFor(posts, user) == {i \in DOMAIN posts : posts[i].user = user}

\* the user's stored setting for the medium says not to send
StoredOff(s, user, label, medium) ==
    \E r \in SettingsFor(s, user, label, medium) : ~r.send

\* C4: get_notification_setting, should_send, send_now, a GET of the settings
\* page and a change of the notice type's default leave every stored
\* NoticeSetting as it is, and while a user's stored setting for a medium is
\* off, send_now delivers nothing to that user on that medium.
C4_OnlyUpdatesChangeSettings ==
    [][/\ (\/ last'.op \in {"get_notification_setting", "should_send", "send_now",
                            "create_notice_type"}
           \/ (last'.op = "notices_view" /\ last'.args.method = "GET"))
          => Kept(noticeSettings, noticeSettings')
       /\ last'.op = "send_now" =>
            \A u \in Users :
                /\ (StoredOff(Cur, u, last'.args.label, "1") /\ Email(u) # "")
                      => MailedTo(outbox', Email(u)) = {}
                /\ StoredOff(Cur, u, last'.args.label, "2")
                      => PostedFor(wall', u) = {}]_vars

\* u1 has email and facebook switched off although the default is 3 now, and
\* a send_now to u1 and u2 has mailed nobody and posted to u2 alone
C4_Witness ==
    /\ last.op = "send_now" /\ last.exc = "none"
    /\ last.args.users = <<"u1", "u2">>
    /\ PROFILES_ACTIVATED
    /\ HasType(Cur, "welcome") /\ TheType(Cur, "welcome").default = 3
    /\ StoredOff(Cur, "u1", "welcome", "1")
    /\ StoredOff(Cur, "u1", "welcome", "2")
    /\ Len(outbox) = 2
    /\ \A i \in DOMAIN outbox : outbox[i].recipients = <<>>
    /\ Len(wall) = 1 /\ wall[1].user = "u2"

\* what should_send answers in state s
WouldSend(s, user, label, medium) == should_send(s, user, label, medium).ret

\* C5: in a send_now, mail goes to a recipient's address if and only if
\* should_send(recipient, notice type, email) holds and the address is not
\* empty, and no send_mail call made for one recipient names another address.
C5_MailIffShouldSend ==
    [][(last'.op = "send_now" /\ HasType(Cur, last'.args.label)) =>
          /\ \A i \in DOMAIN last'.args.users :
                LET u == last'.args.users[i] IN
                (MailedTo(outbox', Email(u)) # {}) <=>
                    (WouldSend(Cur, u, last'.args.label, "1") /\ Email(u) # "")
          /\ \A i \in DOMAIN outbox' :
                \A j \in DOMAIN outbox'[i].recipients :
                    outbox'[i].recipients[j] = Email(outbox'[i].user)]_vars

----------------------------------------------------------------------------
(* Claims about sending about a context object *)

\* C6: send_now with a label no NoticeType has fails with
\* NoticeType.DoesNotExist and leaves the tables as they were: no Notice, no
\* NoticeSetting and no ActivityContext is created, with or without a context
\* object.
C6_UnknownLabelChangesNothing ==
    [][(last'.op = "send_now" /\ TypesOf(Cur, last'.args.label) = {}) =>
          /\ last'.exc = "NoticeType.DoesNotExist"
          /\ notices' = notices
          /\ noticeSettings' = noticeSettings
          /\ activityContexts' = activityContexts]_vars

----------------------------------------------------------------------------
(* Claims about the send router, the queue and the worker *)

\* the step added one NoticeQueueBatch and left the Notice table alone
OnlyEnqueued == 
    /\ last'.exc = "none"
    /\ batches \sqsubseteq batches'
    /\ BagCardinality(batches') = BagCardinality(batches) + 1
    /\ notices' = notices

\* the step did what send_now does with the arguments, and queued nothing
OnlyDispatched(a) ==
    LET sent == send_now(Cur, a.users, a.label, a.extra_context, a.on_site, a.context)
    IN  /\ batches' = batches
        /\ notices' = sent.notices
        /\ outbox' = sent.outbox
        /\ last'.exc = sent.exc
        /\ a.on_site => OneNoticeEach(notices, notices', a.users, TRUE)

\* C7: send routes by its flags. With queue and now both set it fails with an
\* AssertionError and creates neither a NoticeQueueBatch nor a Notice; with
\* queue alone it only enqueues, whatever QUEUE_ALL is; with now alone it only
\* sends now, whatever QUEUE_ALL is; with neither it enqueues when QUEUE_ALL is
\* set and sends now otherwise.
C7_SendRoutesByFlags ==
    [][last'.op = "send" =>
         LET a == last'.args IN
         /\ (a.queue /\ a.now) =>
               /\ last'.exc = "AssertionError"
               /\ batches' = batches
               /\ notices' = notices
         /\ (a.queue /\ ~a.now) => OnlyEnqueued
         /\ (a.now /\ ~a.queue) => OnlyDispatched(a)
         /\ (~a.queue /\ ~a.now /\ QUEUE_ALL) => OnlyEnqueued
         /\ (~a.queue /\ ~a.now /\ ~QUEUE_ALL) => OnlyDispatched(a)]_vars

\* send(now=True) under QUEUE_ALL created two notices and no batch
C7_Witness ==
    /\ QUEUE_ALL
    /\ last.op = "send"
    /\ last.args.now /\ ~last.args.queue
    /\ last.args.users = <<"u2", "u1">>
    /\ last.exc = "none"
    /\ BagCardinality(notices) = 2
    /\ batches = EmptyTable

\* C8: queue persists exactly one NoticeQueueBatch whose list has one tuple
\* (user pk, label, extra_context, on_site, context) per recipient in recipient
\* order; it creates no Notice and no NoticeSetting and sends nothing by mail
\* or to facebook.
C8_QueuePersistsOneBatch ==
    [][last'.op = "queue" =>
         LET a == last'.args
             added == NewRows(batches, batches')
         IN  /\ last'.exc = "none"
             /\ batches \sqsubseteq batches'
             /\ BagCardinality(added) = 1
             /\ \A b \in Rows(added) :
                   /\ Len(Unpickle(b)) = Len(a.users)
                   /\ \A i \in DOMAIN a.users :
                         Unpickle(b)[i] =
                            [user |-> Pk(a.users[i]), label |-> a.label,
                             extra_context |-> a.extra_context,
                             on_site |-> a.on_site, context |-> a.context]
             /\ notices' = notices
             /\ noticeSettings' = noticeSettings
             /\ activityContexts' = activityContexts
             /\ outbox' = <<>>
             /\ wall' = <<>>]_vars

\* two recipients about a project were queued as one batch
C8_Witness ==
    /\ last.op = "queue"
    /\ last.args.users = <<"u2", "u1">>
    /\ last.args.context = "project:1"
    /\ BagCardinality(batches) = 1
    /\ \E b \in Rows(batches) :
          /\ Len(Unpickle(b)) = 2
          /\ Unpickle(b)[1].user = Pk("u2")
          /\ Unpickle(b)[2].user = Pk("u1")
    /\ notices = EmptyTable

\* the Notice rows of both tables agree in number per recipient, notice type,
\* on_site and context
SameNotices(queued, direct) ==
    \A u \in Users, label \in Labels, on_site \in BOOLEAN, context \in QueueContexts :
        LET Like(table) ==
                {r \in Rows(table) : /\ r.user = u
                                     /\ r.notice_type = label
                                     /\ r.on_site = on_site
                                     /\ r.context = context}
        IN  Count(queued, Like(queued)) = Count(direct, Like(direct))

\* C9: queue followed by the worker's drain produces the same Notice rows
\* (number, recipients, notice type, on_site, context) as send_now with the
\* same arguments, and leaves no NoticeQueueBatch behind.
C9_QueuedEqualsImmediate ==
    [][(/\ last.op = "queue"
        /\ BagCardinality(batches) = 1
        /\ last'.op = "emit_notices") =>
          LET a == last.args
              direct == send_now([Cur EXCEPT !.batches = EmptyTable], a.users,
                                 a.label, a.extra_context, a.on_site, a.context)
          IN  /\ SameNotices(notices', direct.notices)
              /\ batches' = EmptyTable]_vars

----------------------------------------------------------------------------
(* Claims about observed items *)

\* how many ObservedItem rows the user has on (observed, signal)
Subscriptions(table, observed, user, signal) ==
    Count(table, {o \in Rows(table) : /\ o.observed = observed
                                      /\ o.user = user
                                      /\ o.signal = signal})

\* how many rows of the Notice table are the user's, of the notice type
NoticesOf(table, user, label) ==
    Count(table, {r \in Rows(table) : r.user = user /\ r.notice_type = label})

\* how many batches hold the one request that tells the user about observed
QueuedFor(table, user, label, observed) ==
    Count(table, {b \in Rows(table) :
                     /\ Len(Unpickle(b)) = 1
                     /\ Unpickle(b)[1].user = Pk(user)
                     /\ Unpickle(b)[1].label = label
                     /\ Unpickle(b)[1].extra_context["observed"] = observed})

\* C10 (as stated): after observe(entity, user, label),
\* send_observation_notices_for(entity, "post_save") creates exactly one Notice
\* of that notice type for the user and none for the items on other entities
\* or signals; after stop_observing(entity, user, "post_save") a further
\* send_observation_notices_for(entity, "post_save") creates none for the user.
C10_NotifyDispatchesOne ==
    [][last'.op = "send_observation_notices_for" =>
         \A u \in Users, label \in Labels :
            NoticesOf(NewRows(notices, notices'), u, label) =
               Count(observedItems,
                     {o \in Rows(observedItems) : /\ o.observed = last'.args.observed
                                                  /\ o.signal = last'.args.signal
                                                  /\ o.user = u
                                                  /\ o.notice_type = label})]_vars

\* C10 (amended): send_observation_notices_for(entity, signal) hands one
\* notification per ObservedItem of (entity, signal) to the send router, and
\* none for the items on other entities or signals: when QUEUE_ALL is unset
\* each is one new Notice of the item's notice type for the item's user and
\* nothing is queued; when QUEUE_ALL is set each is one new NoticeQueueBatch
\* holding the one request for the item's user and no Notice is created. A
\* stop_observing that succeeds leaves the user no item on (entity, signal),
\* so that a further send_observation_notices_for hands none for the user.
C10_NotifySendsOneThroughRouter ==
    [][/\ last'.op = "send_observation_notices_for" =>
            /\ last'.exc = "none"
            /\ notices \sqsubseteq notices' /\ batches \sqsubseteq batches'
            /\ \A u \in Users, label \in Labels :
                  LET items == Count(observedItems,
                          {o \in Rows(observedItems) :
                              /\ o.observed = last'.args.observed
                              /\ o.signal = last'.args.signal
                              /\ o.user = u
                              /\ o.notice_type = label})
                      created == NoticesOf(NewRows(notices, notices'), u, label)
                      queued == QueuedFor(NewRows(batches, batches'), u, label,
                                          last'.args.observed)
                  IN  /\ ~QUEUE_ALL => created = items /\ queued = 0
                      /\ QUEUE_ALL => created = 0 /\ queued = items
            /\ BagCardinality(NewRows(notices, notices'))
                  + BagCardinality(NewRows(batches, batches')) = Len(last'.args.order)
       /\ (last'.op = "stop_observing" /\ last'.exc = "none") =>
            /\ Subscriptions(observedItems, last'.args.observed,
                             last'.args.observer, last'.args.signal) = 1
            /\ Subscriptions(observedItems', last'.args.observed,
                             last'.args.observer, last'.args.signal) = 0
            /\ BagCardinality(observedItems') = BagCardinality(observedItems) - 1]_vars

\* under QUEUE_ALL, u1 observes project:1 on post_save and on post_delete; the
\* post_save of project:1 queued one request for u1 and created no Notice
C10_Witness ==
    /\ QUEUE_ALL
    /\ last.op = "send_observation_notices_for"
    /\ last.args.observed = "project:1" /\ last.args.signal = "post_save"
    /\ Subscriptions(observedItems, "project:1", "u1", "post_save") = 1
    /\ Subscriptions(observedItems, "project:1", "u1", "post_delete") = 1
    /\ QueuedFor(batches, "u1", "welcome", "project:1") = 1
    /\ BagCardinality(batches) = 1
    /\ notices = EmptyTable

\* C11: is_observing(observed, observer, signal) is False for an
\* AnonymousUser whatever the ObservedItem table holds; for any other observer
\* it is True exactly when at least one ObservedItem matches (observed,
\* observer, signal), also when several equal items match. It changes nothing.
C11_IsObservingIffSubscribed ==
    [][last'.op = "is_observing" =>
         LET a == last'.args IN
         /\ last'.exc = "none"
         /\ observedItems' = observedItems
         /\ last'.ret = (/\ a.observer # AnonymousUser
                         /\ Subscriptions(observedItems, a.observed, a.observer,
                                          a.signal) >= 1)]_vars

\* u1 observes project:1 twice on post_save, and is_observing says so
C11_Witness ==
    /\ last.op = "is_observing"
    /\ last.args = [observed |-> "project:1", observer |-> "u1", signal |-> "post_save"]
    /\ Subscriptions(observedItems, "project:1", "u1", "post_save") = 2
    /\ last.ret = TRUE

\* C12: stop_observing(observed, observer, signal) fails with
\* ObservedItem.DoesNotExist when no ObservedItem matches the triple, and then
\* the ObservedItem table is as it was.
C12_StopWithoutItemFails ==
    [][(/\ last'.op = "stop_observing"
        /\ Subscriptions(observedItems, last'.args.observed, last'.args.observer,
                         last'.args.signal) = 0) =>
          /\ last'.exc = "ObservedItem.DoesNotExist"
          /\ observedItems' = observedItems]_vars

\* u1 observes project:1 on post_save only; stopping post_delete failed and both
\* items of the table are still there
C12_Witness ==
    /\ last.op = "stop_observing"
    /\ last.args = [observed |-> "project:1", observer |-> "u1", signal |-> "post_delete"]
    /\ last.exc = "ObservedItem.DoesNotExist"
    /\ Subscriptions(observedItems, "project:1", "u1", "post_save") = 1
    /\ BagCardinality(observedItems) = 2

----------------------------------------------------------------------------
(* Claims about the notices a user is shown *)

\* the table with the row replaced by the changed row
Replaced(table, row, changed) == Insert(Delete(table, row), changed)

\* C13: in any sequence of is_unseen calls on one Notice, exactly the first
\* returns True and stores unseen = False; every later call returns False and
\* leaves unseen = False. (Each call returns the stored unseen and leaves the
\* row with unseen = False, everything else as it was.)
C13_UnseenOnlyOnce ==
    [][last'.op = "is_unseen" =>
         LET notice == last'.args.notice IN
         /\ last'.exc = "none"
         /\ last'.ret = notice.unseen
         /\ notices' = Replaced(notices, notice, [notice EXCEPT !.unseen = FALSE])
         /\ BagCardinality(notices') = BagCardinality(notices)]_vars

\* is_unseen was called on the one notice there is after it had been seen
C13_Witness ==
    /\ last.op = "is_unseen"
    /\ ~last.args.notice.unseen
    /\ last.ret = FALSE
    /\ BagCardinality(notices) = 1
    /\ \A r \in Rows(notices) : ~r.unseen

\* C14: archive is idempotent: called once or any number of times on a Notice
\* it leaves archived = True, without an error. (Each call leaves the row with
\* archived = True, everything else as it was.)
C14_ArchiveIdempotent ==
    [][last'.op = "archive" =>
         LET notice == last'.args.notice IN
         /\ last'.exc = "none"
         /\ notices' = Replaced(notices, notice, [notice EXCEPT !.archived = TRUE])
         /\ notice.archived => notices' = notices]_vars

\* archive was called on the one notice there is after it had been archived
C14_Witness ==
    /\ last.op = "archive"
    /\ last.args.notice.archived
    /\ last.exc = "none"
    /\ BagCardinality(notices) = 1
    /\ \A r \in Rows(notices) : r.archived

----------------------------------------------------------------------------
(* Claims about failures and the language of send_now *)

\* the mail backend raises on the mail send_now sends for the user
MailFailsFor(user, label) ==
    Email(user) \in undeliverable /\ WouldSend(Cur, user, label, "1")

\* C15: in a send_now over several recipients, a failure of the renderer or of
\* a sink while one recipient is processed does not keep the other recipients
\* from being processed: every recipient whose own mail does not fail gets the
\* Notice and the send_mail call.
C15_FailureSparesOtherRecipients ==
    [][(/\ last'.op = "send_now"
        /\ last'.args.on_site
        /\ HasType(Cur, last'.args.label)) =>
          \A u \in Users :
             (Times(last'.args.users, u) > 0 /\ ~MailFailsFor(u, last'.args.label)) =>
                /\ RowsOf(NewRows(notices, notices'), u) = Times(last'.args.users, u)
                /\ \E i \in DOMAIN outbox' : outbox'[i].user = u]_vars

\* C16: send_observation_notices_for goes on after a failure for one
\* ObservedItem: every other ObservedItem of (observed, signal) still has its
\* notice sent.
C16_FailureSparesOtherItems ==
    [][last'.op = "send_observation_notices_for" =>
         \A u \in Users, label \in Labels :
            ~MailFailsFor(u, label) =>
               NoticesOf(NewRows(notices, notices'), u, label) =
                  Count(observedItems,
                        {o \in Rows(observedItems) :
                            /\ o.observed = last'.args.observed
                            /\ o.signal = last'.args.signal
                            /\ o.user = u
                            /\ o.notice_type = label})]_vars

\* C18: when a send_now call ends, whether it completes or fails part-way,
\* the process-wide language is the one from before the call.
C18_LanguageRestored ==
    [][last'.op = "send_now" => active_language' = active_language]_vars

\* C19: within one send_now call every recipient whose notification language
\* is not available is rendered in the language the process had before the
\* call, wherever the recipient stands in the sequence and whatever languages
\* the recipients before had; a recipient's language is in effect only while
\* that recipient is processed.
C19_LanguagePerRecipient ==
    [][(last'.op = "send_now" /\ HasType(Cur, last'.args.label)) =>
          \A i \in DOMAIN outbox' :
             outbox'[i].language =
                IF get_notification_language(outbox'[i].user) # ""
                THEN get_notification_language(outbox'[i].user)
                ELSE active_language]_vars

----------------------------------------------------------------------------
(* Claims about the notice types of a site *)

\* how many NoticeType rows have the label
TypesWith(table, label) == Count(table, {r \in Rows(table) : r.label = label})

\* C17: after any sequence of create_notice_type calls there is exactly one
\* NoticeType per label, holding the display, description and default of the
\* most recent call for the label; a call repeated with the same arguments
\* changes nothing.
C17_OneTypePerLabel ==
    [][last'.op = "create_notice_type" =>
         LET a == last'.args
             row == [label |-> a.label, display |-> a.display,
                     description |-> a.description, default |-> a.default]
         IN  /\ last'.exc = "none"
             /\ TypesWith(noticeTypes', a.label) = 1
             /\ BagIn(row, noticeTypes')
             /\ \A r \in Rows(noticeTypes) \cup Rows(noticeTypes') :
                   r.label # a.label =>
                       CopiesIn(r, noticeTypes') = CopiesIn(r, noticeTypes)
             /\ \A label \in TypeLabels : TypesWith(noticeTypes', label) <= 1
             /\ BagIn(row, noticeTypes) => noticeTypes' = noticeTypes]_vars

\* both labels have a notice type, and the last call gave "welcome" the
\* display, description and default it has now
C17_Witness ==
    /\ last.op = "create_notice_type"
    /\ last.args = [label |-> "welcome", display |-> "Invitation",
                    description |-> "you were invited", default |-> 3]
    /\ BagCardinality(noticeTypes) = 2
    /\ TypesWith(noticeTypes, "invite") = 1
    /\ \A r \in Rows(noticeTypes) :
          r.label = "welcome" => r.display = "Invitation" /\ r.default = 3

----------------------------------------------------------------------------
(* Claims about the wall posts of send_now *)

\* C20: in a send_now over several recipients whose extra_context has none of
\* the facebook fields, the wall post of each recipient has the subject
\* rendered for that recipient as its description; the defaults filled in for
\* one recipient do not reach the recipients after.
C20_DescriptionIsOwnSubject ==
    [][(/\ last'.op = "send_now"
        /\ HasType(Cur, last'.args.label)
        /\ \A k \in FacebookAttrs : ~Has(last'.args.extra_context, k)) =>
          \A i \in DOMAIN wall' :
             wall'[i].attachment["description"] =
                Subject(get_formatted_messages({"short.txt"}, last'.args.label,
                                               wall'[i].user, active_language))]_vars

----------------------------------------------------------------------------
(* Claims about activity contexts *)

\* C21: after any sequence of send_now calls with context objects there is at
\* most one ActivityContext per context object; every Notice a call with a
\* context object creates refers to the ActivityContext of that object, and
\* every Notice a call without one creates has no context.
C21_OneContextPerObject ==
    [][last'.op = "send_now" =>
         LET a == last'.args IN
         /\ \A e \in Entities : CopiesIn(e, activityContexts') <= 1
         /\ activityContexts \sqsubseteq activityContexts'
         /\ \A r \in Rows(NewRows(notices, notices')) : r.context = a.context
         /\ (a.context # NoContext /\ BagCardinality(NewRows(notices, notices')) > 0) =>
               CopiesIn(a.context, activityContexts') = 1]_vars

\* two notices share the one ActivityContext of project:1, which the last
\* send_now found in the table
C21_Witness ==
    /\ last.op = "send_now"
    /\ last.args.context = "project:1"
    /\ Len(last.args.users) = 1
    /\ last.exc = "none"
    /\ BagCardinality(notices) = 2
    /\ \A r \in Rows(notices) : r.context = "project:1"
    /\ CopiesIn("project:1", activityContexts) = 1

----------------------------------------------------------------------------
(* Claims about stopping to observe *)

\* C22: whenever is_observing(observed, observer, signal) is True,
\* stop_observing(observed, observer, signal) succeeds and removes a matching
\* ObservedItem, also after observe was called more than once for the same
\* (observed, observer, signal).
C22_ObservingCanBeStopped ==
    [][(/\ last'.op = "stop_observing"
        /\ is_observing(Cur, last'.args.observed, last'.args.observer,
                        last'.args.signal).ret) =>
          /\ last'.exc = "none"
          /\ Subscriptions(observedItems', last'.args.observed, last'.args.observer,
                           last'.args.signal)
               = Subscriptions(observedItems, last'.args.observed,
                               last'.args.observer, last'.args.signal) - 1]_vars

----------------------------------------------------------------------------
(* Claims about requests that interleave *)

\* C23: however requests that each read a stored Notice and then run
\* is_unseen, archive or mark_all_seen on it interleave, the stored flags only
\* go one way: a stored unseen = False never becomes True again, a stored
\* archived = True never becomes False again.
C23_FlagsMonotonic ==
    [][\A before \in Rows(notices), after \in Rows(notices') :
          before.pk = after.pk =>
             /\ ~before.unseen => ~after.unseen
             /\ before.archived => after.archived]_vars

\* C24: when two get_notification_setting calls for the same (user, notice
\* type, medium) that has no row yet interleave, both complete without
\* failing, both return the same send, and exactly one NoticeSetting row
\* exists afterwards.
C24_InterleavedResolveCreatesOne ==
    [][last'.op = "get_notification_setting" =>
         LET a == last'.args
             rows == {s \in Rows(noticeSettings') : /\ s.user = a.user
                                                    /\ s.notice_type = a.label
                                                    /\ s.medium = a.medium}
         IN  /\ last'.exc = "none"
             /\ Count(noticeSettings', rows) = 1
             /\ \A s \in rows : s.send = last'.ret]_vars

====
